---- MODULE Spec2Model ----
(***************************************************************************)
(* State-machine model of train_GAN.py: main() (resume from checkpoint,    *)
(* learning-rate schedule replay, epoch loop with best-model tracking and   *)
(* the final_state artifact) and train_GAN() (the per-batch adversarial     *)
(* update loop).                                                            *)
(*                                                                         *)
(* Conventions.                                                             *)
(*  - A state dict is a set of records [name, shape, val].  val is a tag    *)
(*    <<module, run, version>>: tensors are random at construction, so the  *)
(*    fresh value of a module is unique to the process that built it;       *)
(*    version v >= 1 means "after training epoch index v-1".                *)
(*  - A learning rate is stored as the exponent k of                        *)
(*    cfg.TRAIN.LR * cfg.TRAIN.LR_FACTOR^k; multiplying by LR_FACTOR^m adds *)
(*    m.  Two rates are equal iff their exponents are (LR_FACTOR not 0, 1). *)
(*  - torch.optim.lr_scheduler.MultiStepLR is modelled as PyTorch >= 1.4    *)
(*    implements it (the chainable form: each step multiplies the           *)
(*    optimizer's current lr when last_epoch hits a milestone).             *)
(*  - An uncaught Python exception ends the process: pc = "aborted" and     *)
(*    exc names the exception.                                              *)
(***************************************************************************)
EXTENDS Integers, Sequences, FiniteSets, TLC

\* ---------------------------------------------------------------- bounds
MaxRuns == 2
MaxEndEpoch == 2
MaxBeginEpoch == 2
MaxMetric == 1
MaxBatches == 2

\* ------------------------------------------------------- input domains
Metrics == 0..MaxMetric
LRSteps == {<< >>, <<1>>, <<1, 2>>}
Losses == {1}

GenArchs ==
  { {[name |-> "w", shape |-> 4]},
    {[name |-> "w", shape |-> 3]},
    {[name |-> "w", shape |-> 4], [name |-> "b", shape |-> 4]} }

DiscArchs ==
  { {[name |-> "w", shape |-> 4]},
    {[name |-> "d", shape |-> 4]} }

Configs ==
  [AUTO_RESUME : BOOLEAN,
   BEGIN_EPOCH : 0..MaxBeginEpoch,
   END_EPOCH   : 1..MaxEndEpoch,
   LR_STEP     : LRSteps]

\* ------------------------------------------------------------- helpers
Max(S) == CHOOSE x \in S : \A y \in S : y <= x

Keys(sd) == {p.name : p \in sd}

Entry(sd, k) == CHOOSE p \in sd : p.name = k

FreshState(arch, module, r) ==
  {[name |-> p.name, shape |-> p.shape, val |-> <<module, r, 0>>] : p \in arch}

get_optimizer(params) == [lr |-> 0, nparams |-> Cardinality(params)]

NullOptimizer == [lr |-> 0, nparams |-> 0]

NullCheckpoint ==
  [epoch |-> -1, perf |-> -1, state_dict |-> {}, optimizer |-> NullOptimizer,
   discriminator_state_dict |-> {}, discriminator_optimizer |-> NullOptimizer]

NoFile == [status |-> "absent", rec |-> NullCheckpoint]

CorruptFile == [status |-> "corrupt", rec |-> NullCheckpoint]

\* ------------------------------------------------- learning-rate schedule
\* Counter(milestones)[e]
Multiplicity(ms, e) == Cardinality({j \in DOMAIN ms : ms[j] = e})

\* MultiStepLR.get_lr at last_epoch = e, on the optimizer's current lr
GetLR(lr, ms, e) ==
  IF Multiplicity(ms, e) = 0 THEN lr ELSE lr + Multiplicity(ms, e)

\* the lr after k calls of step() starting at last_epoch = le
RECURSIVE LRAfter(_, _, _, _)
LRAfter(lr, le, ms, k) ==
  IF k = 0 THEN lr ELSE LRAfter(GetLR(lr, ms, le + 1), le + 1, ms, k - 1)

\* the lr a run from epoch 0 with a fresh optimizer uses in epoch e:
\* the constructor's initial step, then one step at the top of epochs 0..e
UninterruptedLR(ms, e) == LRAfter(0, -1, ms, e + 2)

\* --------------------------------------------------- partial state merge
\* lines 145-151 / 155-161: the filtered dict
FilterCompatible(live, saved) ==
  {s \in saved : \E p \in live : p.name = s.name /\ p.shape = s.shape}

\* Module.load_state_dict(new, strict=False): a key of the module present in
\* new with another shape raises; other keys of new are ignored
LoadRaises(live, new) ==
  \E p \in live : \E s \in new : p.name = s.name /\ p.shape # s.shape

LoadStateDict(live, new) ==
  {IF \E s \in new : s.name = p.name
     THEN [p EXCEPT !.val = Entry(new, p.name).val]
     ELSE p : p \in live}

\* a restore that accepts any saved optimizer state
OptimizerLoadFails_Never(saved, live) == FALSE

\* Optimizer.load_state_dict: param group sizes must agree
OptimizerLoadFails(saved, live) == saved.nparams # live.nparams

\* ----------------------------------------------------- best-model tracker
\* a tracker that wants a strictly better metric
IsImprovement_Strict(perf, best) == perf > best

\* lines 209: the test of the best-model tracker
IsImprovement(perf, best) == perf >= best

\* an epoch loop that runs one epoch too many
InEpochRange_Inclusive(e, end) == e <= end

\* line 185: range(begin_epoch, END_EPOCH) still has e
InEpochRange(e, end) == e < end

\* a record that stores the index of the epoch just trained
CheckpointRecord_SameEpoch(e, perf, gen, og, disc, od) ==
  [epoch |-> e, perf |-> perf, state_dict |-> gen, optimizer |-> og,
   discriminator_state_dict |-> disc, discriminator_optimizer |-> od]

\* lines 215-224: the record handed to save_checkpoint
CheckpointRecord(e, perf, gen, og, disc, od) ==
  [epoch |-> e + 1, perf |-> perf, state_dict |-> gen, optimizer |-> og,
   discriminator_state_dict |-> disc, discriminator_optimizer |-> od]

\* ----------------------------------------------------------------- state
VARIABLES
  cfg,            \* the configuration
  ckpt_file,      \* checkpoint.pth
  final_file,     \* final_state.pth: a sequence of 0 or 1 state dicts
  run,            \* number of the current process
  pc,             \* position of the process
  exc,            \* uncaught exception, "none" if none
  model,          \* generator state dict
  discriminator,  \* discriminator state dict
  optimizer_generator,
  optimizer_discriminator,
  best_perf, best_model, last_epoch, begin_epoch,
  checkpoint,     \* the record torch.load returned
  lr_scheduler,   \* MultiStepLR.last_epoch, -1 before construction
  i,              \* index of the replay loop
  epoch, perf_indicator,
  hist,           \* history of the current process
  tg              \* locals of train_GAN

vars == <<cfg, ckpt_file, final_file, run, pc, exc, model, discriminator,
          optimizer_generator, optimizer_discriminator, best_perf, best_model,
          last_epoch, begin_epoch, checkpoint, lr_scheduler, i, epoch,
          perf_indicator, hist, tg>>

files == <<ckpt_file, final_file>>
nets == <<model, discriminator>>
opts == <<optimizer_generator, optimizer_discriminator>>
locals == <<best_perf, best_model, last_epoch, begin_epoch, checkpoint>>

NewHist(prev) ==
  [considerations |-> 0, ckptWrites |-> 0, finalWrites |-> 0, trained |-> {},
   initBest |-> 0, seen |-> {}, lastImp |-> -1, prevBest |-> prev,
   loaded |-> FALSE, attempted |-> FALSE]

NoGAN ==
  [n |-> 0, i |-> -1, avg_disc_loss |-> 0, avg_gen_loss |-> 0,
   disc_zero_grad |-> 0, gen_zero_grad |-> 0, gen_forward |-> 0,
   disc_forward |-> 0, disc_steps |-> 0, gen_steps |-> 0, report |-> << >>]

\* lines 66-135: a process of main() up to the resume test
StartMain(r, ga, da, prev) ==
  /\ run' = r
  /\ pc' = "resume_check"
  /\ exc' = "none"
  /\ model' = FreshState(ga, "G", r)
  /\ discriminator' = FreshState(da, "D", r)
  /\ optimizer_generator' = get_optimizer(ga)
  /\ optimizer_discriminator' = get_optimizer(da)
  /\ best_perf' = 0
  /\ best_model' = FALSE
  /\ last_epoch' = -1
  /\ begin_epoch' = cfg.BEGIN_EPOCH
  /\ checkpoint' = NullCheckpoint
  /\ lr_scheduler' = -1
  /\ i' = 0
  /\ epoch' = -1
  /\ perf_indicator' = 0
  /\ hist' = NewHist(prev)
  /\ tg' = NoGAN

InitMain ==
  /\ cfg \in Configs
  /\ ckpt_file = NoFile
  /\ final_file = << >>
  /\ run = 1
  /\ pc = "resume_check"
  /\ exc = "none"
  /\ \E ga \in GenArchs, da \in DiscArchs :
       /\ model = FreshState(ga, "G", 1)
       /\ discriminator = FreshState(da, "D", 1)
       /\ optimizer_generator = get_optimizer(ga)
       /\ optimizer_discriminator = get_optimizer(da)
  /\ best_perf = 0
  /\ best_model = FALSE
  /\ last_epoch = -1
  /\ begin_epoch = cfg.BEGIN_EPOCH
  /\ checkpoint = NullCheckpoint
  /\ lr_scheduler = -1
  /\ i = 0
  /\ epoch = -1
  /\ perf_indicator = 0
  /\ hist = NewHist(0)
  /\ tg = NoGAN

Raise(e) ==
  /\ pc' = "aborted"
  /\ exc' = e

\* ------------------------------------------------------- main(): resume
\* line 137, condition false
SkipResume ==
  /\ pc = "resume_check"
  /\ ~(cfg.AUTO_RESUME /\ ckpt_file.status # "absent")
  /\ pc' = "sched"
  /\ UNCHANGED <<cfg, files, run, exc, nets, opts, locals, lr_scheduler, i,
                 epoch, perf_indicator, hist, tg>>

\* lines 137-143
LoadCheckpoint ==
  /\ pc = "resume_check"
  /\ cfg.AUTO_RESUME /\ ckpt_file.status # "absent"
  /\ hist' = [hist EXCEPT !.attempted = TRUE,
                          !.loaded = (ckpt_file.status = "ok")]
  /\ IF ckpt_file.status = "corrupt"
       THEN /\ Raise("UnpicklingError")
            /\ UNCHANGED locals
       ELSE /\ checkpoint' = ckpt_file.rec
            /\ begin_epoch' = ckpt_file.rec.epoch
            /\ best_perf' = ckpt_file.rec.perf
            /\ last_epoch' = ckpt_file.rec.epoch
            /\ pc' = "merge_gen"
            /\ UNCHANGED <<exc, best_model>>
  /\ UNCHANGED <<cfg, files, run, nets, opts, lr_scheduler, i, epoch,
                 perf_indicator, tg>>

\* lines 145-153
MergeGenerator ==
  /\ pc = "merge_gen"
  /\ LET new_model_state_dict == FilterCompatible(model, checkpoint.state_dict)
     IN  model' = LoadStateDict(model, new_model_state_dict)
  /\ pc' = "merge_disc"
  /\ UNCHANGED <<cfg, files, run, exc, discriminator, opts, locals,
                 lr_scheduler, i, epoch, perf_indicator, hist, tg>>

\* lines 155-163: the filtered discriminator dict is loaded into model
MergeDiscriminator ==
  /\ pc = "merge_disc"
  /\ LET new_discriminator_dict ==
           FilterCompatible(discriminator, checkpoint.discriminator_state_dict)
     IN  IF LoadRaises(model, new_discriminator_dict)
           THEN /\ Raise("RuntimeError")
                /\ UNCHANGED model
           ELSE /\ model' = LoadStateDict(model, new_discriminator_dict)
                /\ pc' = "restore_opt"
                /\ UNCHANGED exc
  /\ UNCHANGED <<cfg, files, run, discriminator, opts, locals, lr_scheduler,
                 i, epoch, perf_indicator, hist, tg>>

\* lines 165-171
RestoreOptimizers ==
  /\ pc = "restore_opt"
  /\ IF OptimizerLoadFails(checkpoint.optimizer, optimizer_generator)
       THEN /\ Raise("ValueError")
            /\ UNCHANGED opts
       ELSE IF OptimizerLoadFails(checkpoint.discriminator_optimizer,
                                  optimizer_discriminator)
       THEN /\ Raise("ValueError")
            /\ optimizer_generator' = checkpoint.optimizer
            /\ UNCHANGED optimizer_discriminator
       ELSE /\ optimizer_generator' = checkpoint.optimizer
            /\ optimizer_discriminator' = checkpoint.discriminator_optimizer
            /\ pc' = "sched"
            /\ UNCHANGED exc
  /\ UNCHANGED <<cfg, files, run, nets, locals, lr_scheduler, i, epoch,
                 perf_indicator, hist, tg>>

\* ----------------------------------------------------- main(): schedule
\* lines 173-176: the constructor takes the initial step
BuildSchedule ==
  /\ pc = "sched"
  /\ lr_scheduler' = 0
  /\ optimizer_generator' =
       [optimizer_generator EXCEPT
          !.lr = GetLR(optimizer_generator.lr, cfg.LR_STEP, 0)]
  /\ i' = 0
  /\ pc' = "replay"
  /\ UNCHANGED <<cfg, files, run, exc, nets, optimizer_discriminator, locals,
                 epoch, perf_indicator, hist, tg>>

\* lines 178-179, one iteration
ReplayStep ==
  /\ pc = "replay"
  /\ i < last_epoch
  /\ lr_scheduler' = lr_scheduler + 1
  /\ optimizer_generator' =
       [optimizer_generator EXCEPT
          !.lr = GetLR(optimizer_generator.lr, cfg.LR_STEP, lr_scheduler + 1)]
  /\ i' = i + 1
  /\ UNCHANGED <<cfg, files, run, pc, exc, nets, optimizer_discriminator,
                 locals, epoch, perf_indicator, hist, tg>>

\* line 178 exhausted, line 185 range(begin_epoch, END_EPOCH) created
EnterLoop ==
  /\ pc = "replay"
  /\ ~(i < last_epoch)
  /\ epoch' = begin_epoch
  /\ hist' = [hist EXCEPT !.initBest = best_perf]
  /\ pc' = "loop"
  /\ UNCHANGED <<cfg, files, run, exc, nets, opts, locals, lr_scheduler, i,
                 perf_indicator, tg>>

\* --------------------------------------------------- main(): epoch loop
\* lines 185-186
EpochStep ==
  /\ pc = "loop"
  /\ InEpochRange(epoch, cfg.END_EPOCH)
  /\ lr_scheduler' = lr_scheduler + 1
  /\ optimizer_generator' =
       [optimizer_generator EXCEPT
          !.lr = GetLR(optimizer_generator.lr, cfg.LR_STEP, lr_scheduler + 1)]
  /\ pc' = "train"
  /\ UNCHANGED <<cfg, files, run, exc, nets, optimizer_discriminator, locals,
                 i, epoch, perf_indicator, hist, tg>>

\* lines 191-192: train() is given the generator and its optimizer only
Train ==
  /\ pc = "train"
  /\ model' = {[p EXCEPT !.val = <<"G", run, epoch + 1>>] : p \in model}
  /\ hist' = [hist EXCEPT !.trained = @ \cup {epoch}]
  /\ pc' = "validate"
  /\ UNCHANGED <<cfg, files, run, exc, discriminator, opts, locals,
                 lr_scheduler, i, epoch, perf_indicator, tg>>

\* lines 204-207
Validate ==
  /\ pc = "validate"
  /\ \E m \in Metrics : perf_indicator' = m
  /\ pc' = "consider"
  /\ UNCHANGED <<cfg, files, run, exc, nets, opts, locals, lr_scheduler, i,
                 epoch, hist, tg>>

\* lines 209-229, then the loop variable advances
Consider ==
  /\ pc = "consider"
  /\ IF IsImprovement(perf_indicator, best_perf)
       THEN /\ best_perf' = perf_indicator
            /\ best_model' = TRUE
            /\ ckpt_file' =
                 [status |-> "ok",
                  rec |-> CheckpointRecord(epoch, perf_indicator, model,
                            optimizer_generator, discriminator,
                            optimizer_discriminator)]
            /\ hist' = [hist EXCEPT !.considerations = @ + 1,
                                    !.ckptWrites = @ + 1,
                                    !.seen = @ \cup {perf_indicator},
                                    !.lastImp = epoch]
       ELSE /\ best_model' = FALSE
            /\ hist' = [hist EXCEPT !.considerations = @ + 1,
                                    !.seen = @ \cup {perf_indicator}]
            /\ UNCHANGED <<best_perf, ckpt_file>>
  /\ epoch' = epoch + 1
  /\ pc' = "loop"
  /\ UNCHANGED <<cfg, final_file, run, exc, nets, opts, last_epoch,
                 begin_epoch, checkpoint, lr_scheduler, i, perf_indicator, tg>>

\* lines 231-237
Finish ==
  /\ pc = "loop"
  /\ ~InEpochRange(epoch, cfg.END_EPOCH)
  /\ final_file' = <<model>>
  /\ hist' = [hist EXCEPT !.finalWrites = @ + 1]
  /\ pc' = "done"
  /\ UNCHANGED <<cfg, ckpt_file, run, exc, nets, opts, locals, lr_scheduler,
                 i, epoch, perf_indicator, tg>>

\* ------------------------------------------------------- the environment
\* the job is stopped while an epoch is being trained or validated
Interrupt ==
  /\ pc \in {"train", "validate"}
  /\ pc' = "killed"
  /\ UNCHANGED <<cfg, files, run, exc, nets, opts, locals, lr_scheduler, i,
                 epoch, perf_indicator, hist, tg>>

\* the job is stopped inside save_checkpoint (lines 215-224): line 210 has
\* run, and torch.save leaves a truncated checkpoint.pth
CrashDuringSave ==
  /\ pc = "consider"
  /\ IsImprovement(perf_indicator, best_perf)
  /\ best_perf' = perf_indicator
  /\ best_model' = TRUE
  /\ ckpt_file' = CorruptFile
  /\ pc' = "killed"
  /\ UNCHANGED <<cfg, final_file, run, exc, nets, opts, last_epoch,
                 begin_epoch, checkpoint, lr_scheduler, i, epoch,
                 perf_indicator, hist, tg>>

\* lines 320-322 again: the job is started once more on the same output
\* directory, perhaps with another MODEL.NAME / NUM_JOINTS
Restart ==
  /\ pc \in {"done", "aborted", "killed"}
  /\ run < MaxRuns
  /\ \E ga \in GenArchs, da \in DiscArchs :
       StartMain(run + 1, ga, da, best_perf)
  /\ UNCHANGED <<cfg, files>>


\* ------------------------------------------------------------ train_GAN()
\* names bound when line 300 is evaluated: the parameters, the locals
\* assigned on lines 285-299 and the names the module defines or imports
LocalNames ==
  {"cfg", "train_loader", "model", "discriminator", "optimizer_discriminator",
   "optimizer_generator", "epoch", "final_output_dir", "tb_log_dir", "tbar",
   "avg_disc_loss", "avg_gen_loss", "i", "input", "target", "target_weight",
   "meta", "outputs", "disc_real"}

GlobalNames ==
  {"argparse", "os", "pprint", "shutil", "torch", "cudnn", "transforms",
   "SummaryWriter", "cfg", "update_config", "JointsMSELoss", "train",
   "validate", "get_optimizer", "save_checkpoint", "create_logger",
   "get_model_summary", "dataset", "models", "get_omnipose", "get_pose_net",
   "Discriminator", "resize", "warnings", "tqdm", "parse_args", "main",
   "_get_loss_disc", "get_loss_disc", "get_loss_gen", "_resize_images_batch",
   "train_GAN"}

NameBound(n) == n \in LocalNames \cup GlobalNames

\* train_GAN is called on a loader of n batches (no caller in this file:
\* the call on lines 193-200 is commented out)
InitGAN ==
  /\ cfg = [AUTO_RESUME |-> FALSE, BEGIN_EPOCH |-> 0, END_EPOCH |-> 1,
            LR_STEP |-> << >>]
  /\ ckpt_file = NoFile
  /\ final_file = << >>
  /\ run = 1
  /\ pc = "tg_start"
  /\ exc = "none"
  /\ \E ga \in GenArchs, da \in DiscArchs :
       /\ model = FreshState(ga, "G", 1)
       /\ discriminator = FreshState(da, "D", 1)
       /\ optimizer_generator = get_optimizer(ga)
       /\ optimizer_discriminator = get_optimizer(da)
  /\ best_perf = 0
  /\ best_model = FALSE
  /\ last_epoch = -1
  /\ begin_epoch = 0
  /\ checkpoint = NullCheckpoint
  /\ lr_scheduler = -1
  /\ i = 0
  /\ epoch = 0
  /\ perf_indicator = 0
  /\ hist = NewHist(0)
  /\ \E n \in 0..MaxBatches : tg = [NoGAN EXCEPT !.n = n]

mainState == <<cfg, files, run, nets, opts, locals, lr_scheduler, i, epoch,
               perf_indicator, hist>>

\* lines 285-292
TG_Start ==
  /\ pc = "tg_start"
  /\ tg' = [tg EXCEPT !.avg_disc_loss = 0, !.avg_gen_loss = 0]
  /\ pc' = "tg_loop"
  /\ UNCHANGED <<mainState, exc>>

\* lines 294-315: one iteration of the loop.  Line 300 reads input_resized.
TG_Batch ==
  /\ pc = "tg_loop"
  /\ tg.i + 1 < tg.n
  /\ \E loss_disc \in Losses, loss_gen \in Losses :
       IF ~NameBound("input_resized")
         THEN /\ tg' = [tg EXCEPT !.i = @ + 1,
                                  !.disc_zero_grad = @ + 1,
                                  !.gen_forward = @ + 1,
                                  !.disc_forward = @ + 1]
              /\ pc' = "tg_raised"
              /\ exc' = "NameError"
         ELSE /\ tg' = [tg EXCEPT !.i = @ + 1,
                                  !.disc_zero_grad = @ + 1,
                                  !.gen_zero_grad = @ + 1,
                                  !.gen_forward = @ + 2,
                                  !.disc_forward = @ + 3,
                                  !.avg_disc_loss = @ + loss_disc,
                                  !.avg_gen_loss = @ + loss_gen,
                                  !.disc_steps = @ + 1,
                                  !.gen_steps = @ + 1]
              /\ UNCHANGED <<pc, exc>>
  /\ UNCHANGED mainState

\* line 317, after the loop is exhausted: both totals are divided by i.
\* report = <<gen total, gen divisor, disc total, disc divisor>>
TG_Report ==
  /\ pc = "tg_loop"
  /\ ~(tg.i + 1 < tg.n)
  /\ IF tg.i = -1
       THEN /\ pc' = "tg_raised"
            /\ exc' = "UnboundLocalError"
            /\ UNCHANGED tg
       ELSE IF tg.i = 0
       THEN /\ pc' = "tg_raised"
            /\ exc' = "ZeroDivisionError"
            /\ UNCHANGED tg
       ELSE /\ tg' = [tg EXCEPT !.report = <<tg.avg_gen_loss, tg.i,
                                             tg.avg_disc_loss, tg.i>>]
            /\ pc' = "tg_returned"
            /\ UNCHANGED exc
  /\ UNCHANGED mainState

Next ==
  \/ SkipResume
  \/ LoadCheckpoint
  \/ MergeGenerator
  \/ MergeDiscriminator
  \/ RestoreOptimizers
  \/ BuildSchedule
  \/ ReplayStep
  \/ EnterLoop
  \/ EpochStep
  \/ Train
  \/ Validate
  \/ Consider
  \/ Finish
  \/ Interrupt
  \/ CrashDuringSave
  \/ Restart
  \/ TG_Start
  \/ TG_Batch
  \/ TG_Report

Init == InitMain \/ InitGAN

Spec == Init /\ [][Next]_vars

TypeOK ==
  /\ pc \in {"resume_check", "merge_gen", "merge_disc", "restore_opt",
             "sched", "replay", "loop", "train", "validate", "consider",
             "done", "aborted", "killed", "tg_start", "tg_loop",
             "tg_raised", "tg_returned"}
  /\ run \in 1..MaxRuns

\* ================================================================ claims
MainPCs == {"resume_check", "merge_gen", "merge_disc", "restore_opt",
            "sched", "replay", "loop", "train", "validate", "consider",
            "done", "aborted", "killed"}

LoopPCs == {"loop", "train", "validate", "consider", "done"}

Compatible(p, saved) ==
  \E s \in saved : s.name = p.name /\ s.shape = p.shape

\* C1: when main() resumes from a checkpoint of epoch E (the runs before it
\* started at epoch 0), the generator optimizer's learning rate in the first
\* resumed epoch equals the rate an uninterrupted run from epoch 0 uses in
\* that epoch.
C1_ResumedRateMatchesUninterrupted ==
  (hist.loaded /\ cfg.BEGIN_EPOCH = 0 /\ pc = "train" /\ epoch = begin_epoch)
    => optimizer_generator.lr = UninterruptedLR(cfg.LR_STEP, epoch)

\* C2: after a resume, every discriminator parameter compatible with the
\* checkpoint's discriminator state holds the saved discriminator value,
\* every generator parameter compatible with the checkpoint's generator
\* state holds the saved generator value, and no generator parameter holds
\* a value taken from the discriminator state.
C2_PartialLoadAppliedToBoth ==
  (hist.loaded /\ pc = "sched") =>
    /\ \A p \in discriminator :
         \A s \in checkpoint.discriminator_state_dict :
           (s.name = p.name /\ s.shape = p.shape) => p.val = s.val
    /\ \A p \in model :
         \A s \in checkpoint.state_dict :
           (s.name = p.name /\ s.shape = p.shape) => p.val = s.val
    /\ \A p \in model : p.val[1] # "D"

\* C3: for every batch train_GAN has entered, exactly one discriminator
\* optimizer step and one generator optimizer step have been taken, each
\* after zeroing that optimizer's gradients; no batch ends with fewer.
C3_OneStepOfEachPerBatch ==
  pc \in {"tg_loop", "tg_raised", "tg_returned"} =>
    /\ tg.disc_steps = tg.i + 1
    /\ tg.gen_steps = tg.i + 1
    /\ tg.disc_zero_grad = tg.i + 1
    /\ tg.gen_zero_grad = tg.i + 1

\* C4: an epoch is an improvement exactly when its metric is >= best_perf
\* (ties count); the checkpoint file is written in that epoch iff it is an
\* improvement; best_perf never decreases and, at every point of the epoch
\* loop, equals the maximum of its initial value and the metrics considered.
C4_BestModelTracker ==
  /\ [](pc \in LoopPCs => best_perf = Max({hist.initBest} \cup hist.seen))
  /\ [][(pc = "consider" /\ pc' = "loop") =>
          /\ best_model' = (perf_indicator >= best_perf)
          /\ (ckpt_file' # ckpt_file) = (perf_indicator >= best_perf)
          /\ (perf_indicator >= best_perf) =>
               /\ ckpt_file'.status = "ok"
               /\ ckpt_file'.rec.perf = perf_indicator
          /\ best_perf' = Max({best_perf, perf_indicator})
          /\ best_perf' >= best_perf]_vars

\* C4 witness: a second epoch whose metric equals the incumbent best was
\* declared an improvement
C4_Witness ==
  /\ pc = "loop"
  /\ hist.considerations = 2
  /\ hist.seen = {1}
  /\ best_model
  /\ hist.ckptWrites = 2

\* C5: train_GAN's averaging never raises (for a loader of 0 batches it
\* returns normally) and, when it reports, each total is divided by the
\* number n of batches.
C5_AverageOverBatches ==
  /\ exc \notin {"UnboundLocalError", "ZeroDivisionError"}
  /\ pc = "tg_returned" =>
       tg.report = <<tg.avg_gen_loss, tg.n, tg.avg_disc_loss, tg.n>>

\* C6: at every epoch boundary of main()'s loop, fresh (any begin epoch) or
\* resumed, the number of steps the schedule has taken equals the epoch
\* counter.
C6_SchedulePositionEqualsEpoch ==
  pc = "loop" => lr_scheduler = epoch

\* C7: a run of main() that starts its loop at b and ends at e considers a
\* checkpoint once per epoch, after that epoch's training and validation,
\* max(0, e - b) times in all, and writes final_state exactly once, after
\* the last epoch, holding the generator's state dict, improvement or not.
C7_ConsiderationsAndFinalState ==
  /\ pc = "loop" =>
       /\ hist.considerations = Cardinality(hist.trained)
       /\ hist.trained = begin_epoch..(epoch - 1)
  /\ pc \in MainPCs \ {"done"} => hist.finalWrites = 0
  /\ pc = "done" =>
       /\ hist.considerations = Max({0, cfg.END_EPOCH - begin_epoch})
       /\ hist.finalWrites = 1
       /\ final_file = <<model>>

\* C7 witness: a run that trained an epoch without any improvement has
\* written final_state
C7_Witness ==
  /\ pc = "done"
  /\ hist.considerations >= 1
  /\ hist.ckptWrites = 0
  /\ final_file = <<model>>

\* C8: when the checkpoint file fails to deserialize, or a saved optimizer
\* state does not fit the live optimizer, the run does not get past the
\* resume: it trains no epoch, writes neither file and never reaches the
\* schedule or the epoch loop.
C8_ResumeFailureAborts ==
  LET corrupt == hist.attempted /\ ~hist.loaded
      misfit  == /\ hist.loaded
                 /\ \/ checkpoint.optimizer.nparams # Cardinality(model)
                    \/ checkpoint.discriminator_optimizer.nparams
                         # Cardinality(discriminator)
  IN  /\ corrupt => pc = "aborted"
      /\ (corrupt \/ misfit) =>
           /\ pc \in {"merge_gen", "merge_disc", "restore_opt", "aborted"}
           /\ hist.trained = {}
           /\ hist.considerations = 0
           /\ hist.ckptWrites = 0
           /\ hist.finalWrites = 0

\* C8 witness: restoring an optimizer state raised and the run is over
C8_Witness ==
  /\ pc = "aborted"
  /\ exc = "ValueError"
  /\ hist.loaded
  /\ hist.trained = {}

\* C9: the model-state merge of the resume path never raises, and after it
\* every live parameter of the generator and of the discriminator that has
\* no compatible entry in its saved dict keeps its freshly-initialized
\* value.
C9_MergeNeverFails ==
  /\ exc # "RuntimeError"
  /\ (hist.loaded /\ pc = "restore_opt") =>
       /\ \A p \in model :
            ~Compatible(p, checkpoint.state_dict) => p.val = <<"G", run, 0>>
       /\ \A p \in discriminator :
            ~Compatible(p, checkpoint.discriminator_state_dict)
              => p.val = <<"D", run, 0>>

\* C10: at every epoch boundary after an improvement the stored record has
\* perf = best_perf and epoch = (last improving epoch) + 1; a run that
\* resumed from a record begins at that record's epoch with that record's
\* perf as best_perf, trains no epoch index below it, and the restored best
\* is not lower than the best the previous run had reached.
C10_CheckpointRoundTrip ==
  /\ (pc = "loop" /\ hist.lastImp >= 0) =>
       /\ ckpt_file.status = "ok"
       /\ ckpt_file.rec.perf = best_perf
       /\ ckpt_file.rec.epoch = hist.lastImp + 1
  /\ hist.loaded =>
       /\ begin_epoch = checkpoint.epoch
       /\ pc \in {"merge_gen", "merge_disc", "restore_opt", "sched", "replay"}
            => best_perf = checkpoint.perf
       /\ best_perf >= checkpoint.perf
       /\ checkpoint.perf >= hist.prevBest
       /\ \A e \in hist.trained : e >= checkpoint.epoch

\* C10 witness: a resumed run has trained an epoch that improved on the
\* restored best and stands at the epoch boundary
C10_Witness ==
  /\ hist.loaded
  /\ pc = "loop"
  /\ hist.lastImp >= checkpoint.epoch
====
